---- MODULE Spec2Model ----
(***************************************************************************)
(* A model of scripts/fetch-prices.js: one run of the hourly price job.    *)
(* The run loads data/history.json, walks the catalog (one primary-market  *)
(* call per item, at most one peer-seller call per item), fetches the      *)
(* points price, appends one snapshot, trims the log to MAX_ENTRIES and    *)
(* writes the file back.                                                   *)
(*                                                                         *)
(* Spec runs the job against every response of the model's endpoints,     *)
(* from a history file that is absent, damaged or short.  SpecWindow runs  *)
(* it on a quiet day from logs whose length is around MAX_ENTRIES.         *)
(*                                                                         *)
(* JavaScript values are modelled as tagged records of one shape           *)
(*   [t |-> tag, n |-> integer, s |-> string, kids |-> <<[k, v], ...>>]    *)
(* with tags undefined, null, boolean, number, NaN, Infinity, string,      *)
(* array, object.  An array's kids carry its elements (k = ""), an         *)
(* object's kids carry its properties in Object.values order.  Numbers     *)
(* are integers; NaN and Infinity are values of their own whose typeof is  *)
(* "number".                                                               *)
(***************************************************************************)
EXTENDS Integers, Sequences, FiniteSets, TLC

VARIABLES
  apiKey,      \* process.env.TORN_API_KEY is set
  file,        \* data/history.json: [exists, valid, json]
  found,       \* data/history.json as the process found it
  now,         \* Date.now()
  pc,          \* position of the run
  history,     \* main: history, the elements of the array
  market,      \* main: market, the properties in insertion order
  bazaar,      \* main: bazaar, the properties in insertion order
  i,           \* main: the loop index, 1-based
  marketPrice, \* fetchItemPrices: marketPrice
  shopIds,     \* fetchItemPrices: shopIds
  bazaarPrice, \* fetchItemPrices: bazaarPrice
  resp,        \* the response of the network call being handled
  pp,          \* main: pp
  trace        \* the network calls and pauses of the run, in order

vars == <<apiKey, file, found, now, pc, history, market, bazaar, i, marketPrice,
          shopIds, bazaarPrice, resp, pp, trace>>

(***************************************************************************)
(* Bounds of the model.                                                    *)
(***************************************************************************)
\* how many entries of the catalog a run walks
NumItems == 2
\* the longest history file of Init holds MAX_ENTRIES + MaxOver elements
MaxOver == 2

(***************************************************************************)
(* Program constants.                                                      *)
(***************************************************************************)
MAX_ENTRIES == 720
DELAY_MS == 700
\* fetchPointsPrice: .slice(0, 5)
LowestN == 5

(***************************************************************************)
(* JavaScript values.                                                      *)
(***************************************************************************)
JS(t, n, s, kids) == [t |-> t, n |-> n, s |-> s, kids |-> kids]
Undef == JS("undefined", 0, "", <<>>)
Null == JS("null", 0, "", <<>>)
NaN == JS("NaN", 0, "", <<>>)
Infinity == JS("Infinity", 0, "", <<>>)
Num(n) == JS("number", n, "", <<>>)
Str(s) == JS("string", 0, s, <<>>)
Bool(b) == JS("boolean", IF b THEN 1 ELSE 0, "", <<>>)
KV(k, v) == [k |-> k, v |-> v]
Arr(elems) == JS("array", 0, "", [j \in 1..Len(elems) |-> KV("", elems[j])])
Obj(props) == JS("object", 0, "", props)

\* the elements of an array value
Elems(a) == [j \in 1..Len(a.kids) |-> a.kids[j].v]

\* typeof v
TypeOf(v) ==
  CASE v.t \in {"number", "NaN", "Infinity"} -> "number"
    [] v.t \in {"null", "array", "object"} -> "object"
    [] OTHER -> v.t

\* v == null (null or undefined): a property read on it throws TypeError
Nullish(v) == v.t \in {"undefined", "null"}

\* Array.isArray(v)
IsArray(v) == v.t = "array"

\* the truthiness of v
Truthy(v) ==
  CASE v.t \in {"undefined", "null", "NaN"} -> FALSE
    [] v.t = "boolean" -> v.n = 1
    [] v.t = "number" -> v.n # 0
    [] v.t = "string" -> v.s # ""
    [] OTHER -> TRUE

\* k in v, for an object v
HasKey(v, k) == v.t = "object" /\ \E j \in 1..Len(v.kids) : v.kids[j].k = k

\* v.k for a v that is not nullish: the property of an object, undefined on
\* anything else (the keys read are never "length" or an index)
Get(v, k) ==
  IF HasKey(v, k)
    THEN v.kids[CHOOSE j \in 1..Len(v.kids) : v.kids[j].k = k].v
    ELSE Undef

\* v?.k
OptGet(v, k) == IF Nullish(v) THEN Undef ELSE Get(v, k)

\* a ?? b
Coalesce(a, b) == IF Nullish(a) THEN b ELSE a

\* the numeric strings the payloads of the model use
StrToNumber(s) ==
  CASE s = "" -> Num(0)
    [] s = "9" -> Num(9)
    [] s = "100" -> Num(100)
    [] s = "1504" -> Num(1504)
    [] s = "1503" -> Num(1503)
    [] OTHER -> NaN

\* Number(v)
ToNumber(v) ==
  CASE v.t \in {"number", "NaN", "Infinity"} -> v
    [] v.t = "null" -> Num(0)
    [] v.t = "boolean" -> Num(v.n)
    [] v.t = "string" -> StrToNumber(v.s)
    [] v.t = "array" /\ Len(v.kids) = 0 -> Num(0)
    [] v.t = "array" /\ Len(v.kids) = 1 /\ v.kids[1].v.t = "number" -> v.kids[1].v
    [] v.t = "array" /\ Len(v.kids) = 1 /\ v.kids[1].v.t = "string" ->
         StrToNumber(v.kids[1].v.s)
    [] OTHER -> NaN

\* v > 0
GtZero(v) ==
  LET x == ToNumber(v)
  IN x.t = "Infinity" \/ (x.t = "number" /\ x.n > 0)

\* Object.values(v): the elements of an array, the property values of an
\* object; a string yields its characters, which every caller filters out
\* (none is an object, none has a quantity), and is modelled as empty
Values(v) ==
  IF v.t \in {"array", "object"}
    THEN [j \in 1..Len(v.kids) |-> v.kids[j].v]
    ELSE <<>>

\* seq.filter(v => v && typeof v === "object")
RECURSIVE ObjectsOf(_)
ObjectsOf(seq) ==
  IF seq = <<>> THEN <<>>
  ELSE LET v == Head(seq)
       IN IF Truthy(v) /\ TypeOf(v) = "object"
            THEN <<v>> \o ObjectsOf(Tail(seq))
            ELSE ObjectsOf(Tail(seq))

(***************************************************************************)
(* Helpers: extractListings, listingCost, cheapest.                        *)
(***************************************************************************)
ContainerKeys == <<"items", "offers", "rows", "data", "results">>

\* the loop over ContainerKeys from index j on: the first array found
\* under sec[k] or sec[k].listings, or Undef when no key matches
RECURSIVE ContainerFrom(_, _)
ContainerFrom(sec, j) ==
  IF j > Len(ContainerKeys) THEN Undef
  ELSE LET sk == Get(sec, ContainerKeys[j])
       IN IF IsArray(sk) THEN sk
          ELSE IF Truthy(sk) /\ IsArray(Get(sk, "listings"))
            THEN Get(sk, "listings")
            ELSE ContainerFrom(sec, j + 1)

\* "price" in v || "cost" in v || "amount" in v, for an object or array v
LooksLikeListing(v) ==
  HasKey(v, "price") \/ HasKey(v, "cost") \/ HasKey(v, "amount")

\* extractListings(sec): a sequence of values
extractListings(sec) ==
  IF ~Truthy(sec) THEN <<>>
  ELSE IF IsArray(sec) THEN Elems(sec)
  ELSE IF TypeOf(sec) = "object" THEN
    IF IsArray(Get(sec, "listings")) THEN Elems(Get(sec, "listings"))
    ELSE IF ContainerFrom(sec, 1) # Undef THEN Elems(ContainerFrom(sec, 1))
    ELSE LET vals == ObjectsOf(Values(sec))
         IN IF \E j \in 1..Len(vals) : LooksLikeListing(vals[j])
              THEN vals
              ELSE <<>>
  ELSE <<>>

CostFields == <<"price", "cost", "amount", "value">>

\* the loop of listingCost from field j on
RECURSIVE CostFrom(_, _)
CostFrom(l, j) ==
  IF j > Len(CostFields) THEN Null
  ELSE LET v == Get(l, CostFields[j])
       IN IF TypeOf(v) = "number" /\ GtZero(v) THEN v
          ELSE CostFrom(l, j + 1)

\* listingCost(l)
listingCost(l) ==
  IF ~Truthy(l) \/ TypeOf(l) # "object" THEN Null ELSE CostFrom(l, 1)

\* a < b for two numbers that are not NaN
NumLess(a, b) ==
  /\ a.t # "Infinity"
  /\ (b.t = "Infinity" \/ a.n < b.n)

\* the loop of cheapest over the listings, min being the minimum so far
RECURSIVE CheapestFrom(_, _)
CheapestFrom(listings, min) ==
  IF listings = <<>> THEN min
  ELSE LET c == listingCost(Head(listings))
       IN IF c # Null /\ NumLess(c, min)
            THEN CheapestFrom(Tail(listings), c)
            ELSE CheapestFrom(Tail(listings), min)

\* cheapest(listings)
cheapest(listings) ==
  LET min == CheapestFrom(listings, Infinity)
  IN IF min.t = "number" THEN min ELSE Null

(***************************************************************************)
(* The catalog: the first entries of ITEMS, in Object.keys order.          *)
(***************************************************************************)
ITEMS ==
  << [name |-> "Quartz Point", id |-> 1504],
     [name |-> "Chalcedony Point", id |-> 1503],
     [name |-> "Basalt Point", id |-> 1502],
     [name |-> "Quartzite Point", id |-> 1500] >>

\* Object.keys(ITEMS), cut to the entries the model walks
names == [j \in 1..NumItems |-> ITEMS[j].name]

(***************************************************************************)
(* A network call's outcome: apiGet throws (network error, timeout, a body *)
(* that is not JSON) or returns the parsed body.                           *)
(***************************************************************************)
Thrown == [throws |-> TRUE, data |-> Undef]
Returned(data) == [throws |-> FALSE, data |-> data]

(***************************************************************************)
(* fetchItemPrices, step 1 (the try block of lines 99-122).                *)
(***************************************************************************)
\* the read data.error throws: apiGet threw, or data is null
Step1ThrowsEarly(r) == r.throws \/ Nullish(r.data)

\* the else branch is taken: the payload carries no error
Step1NoError(r) == ~Step1ThrowsEarly(r) /\ ~Truthy(Get(r.data, "error"))

\* mraw?.item?.average_price ?? 0
AveragePrice(data) ==
  LET mraw == Get(data, "itemmarket")
  IN Coalesce(OptGet(OptGet(mraw, "item"), "average_price"), Num(0))

\* the value assigned to marketPrice in the else branch
MarketPriceOf(data) ==
  LET mraw == Get(data, "itemmarket")
      avg == AveragePrice(data)
  IN IF GtZero(avg) THEN avg
     ELSE cheapest(extractListings(
            Coalesce(Coalesce(OptGet(mraw, "listings"), mraw), Arr(<<>>))))

\* data.bazaar?.specialized ?? []
Specialized(data) ==
  Coalesce(OptGet(Get(data, "bazaar"), "specialized"), Arr(<<>>))

\* specialized.filter(...).map(s => s.id).filter(...), for an array
RECURSIVE OpenShopIds(_)
OpenShopIds(seq) ==
  IF seq = <<>> THEN <<>>
  ELSE LET s == Head(seq)
           id == Get(s, "id")
       IN IF /\ Truthy(s)
             /\ Get(s, "is_open") # Bool(FALSE)
             /\ TypeOf(id) = "number"
             /\ GtZero(id)
            THEN <<id>> \o OpenShopIds(Tail(seq))
            ELSE OpenShopIds(Tail(seq))

\* specialized.filter is not a function: the TypeError of line 115
Step1ThrowsLate(r) == Step1NoError(r) /\ ~IsArray(Specialized(r.data))

\* an exception is caught by the catch of line 120
Step1Throws(r) == Step1ThrowsEarly(r) \/ Step1ThrowsLate(r)

\* marketPrice after the try/catch
Step1Price(r) == IF Step1NoError(r) THEN MarketPriceOf(r.data) ELSE Null

\* shopIds after the try/catch
Step1Shops(r) ==
  IF Step1NoError(r) /\ IsArray(Specialized(r.data))
    THEN OpenShopIds(Elems(Specialized(r.data)))
    ELSE <<>>

(***************************************************************************)
(* fetchItemPrices, step 2 (the try block of lines 128-147).               *)
(***************************************************************************)
\* shopData.bazaar ?? shopData.items ?? shopData
Inventory(shopData) ==
  Coalesce(Coalesce(Get(shopData, "bazaar"), Get(shopData, "items")), shopData)

\* the entries the loop of line 137 walks
InventoryEntries(inv) ==
  IF IsArray(inv) THEN Elems(inv)
  ELSE IF TypeOf(inv) = "object" /\ inv # Null THEN ObjectsOf(Values(inv))
  ELSE <<>>

\* Number(a) !== Number(b)
NumberDiffers(a, b) ==
  LET x == ToNumber(a)
      y == ToNumber(b)
  IN x.t = "NaN" \/ y.t = "NaN" \/ x # y

\* the loop of lines 137-142 from bazaarPrice = best on: the price found,
\* and whether reading e.ID threw on a null entry
RECURSIVE ScanEntries(_, _, _)
ScanEntries(entries, itemId, best) ==
  IF entries = <<>> THEN [price |-> best, threw |-> FALSE]
  ELSE LET e == Head(entries)
           eid == Coalesce(Coalesce(Get(e, "ID"), Get(e, "id")), Get(e, "item_id"))
           p == listingCost(e)
       IN IF Nullish(e) THEN [price |-> best, threw |-> TRUE]
          ELSE IF NumberDiffers(eid, Num(itemId))
            THEN ScanEntries(Tail(entries), itemId, best)
          ELSE IF p # Null /\ (best = Null \/ NumLess(p, best))
            THEN ScanEntries(Tail(entries), itemId, p)
            ELSE ScanEntries(Tail(entries), itemId, best)

\* the try block of step 2: bazaarPrice, and whether the catch was entered
Step2(r, itemId) ==
  IF r.throws \/ Nullish(r.data) THEN [price |-> Null, threw |-> TRUE]
  ELSE IF Truthy(Get(r.data, "error")) THEN [price |-> Null, threw |-> FALSE]
  ELSE ScanEntries(InventoryEntries(Inventory(r.data)), itemId, Null)

(***************************************************************************)
(* fetchPointsPrice.                                                       *)
(***************************************************************************)
\* .filter(l => l.quantity > 0).map(l => l.cost)
RECURSIVE AvailableCosts(_)
AvailableCosts(seq) ==
  IF seq = <<>> THEN <<>>
  ELSE IF GtZero(Get(Head(seq), "quantity"))
    THEN <<Get(Head(seq), "cost")>> \o AvailableCosts(Tail(seq))
    ELSE AvailableCosts(Tail(seq))

\* c put in its place in the sorted sequence: before the first larger number
RECURSIVE InsertCost(_, _)
InsertCost(c, sorted) ==
  IF sorted = <<>> THEN <<c>>
  ELSE IF Head(sorted).t = "undefined" \/
          (c.t # "undefined" /\ NumLess(c, Head(sorted)))
    THEN <<c>> \o sorted
    ELSE <<Head(sorted)>> \o InsertCost(c, Tail(sorted))

\* .sort((a, b) => a - b) on numbers and undefined: the numbers ascending,
\* undefined last
RECURSIVE SortCosts(_)
SortCosts(seq) ==
  IF seq = <<>> THEN <<>>
  ELSE InsertCost(seq[Len(seq)], SortCosts(SubSeq(seq, 1, Len(seq) - 1)))

\* .slice(0, 5)
Lowest(seq) == SubSeq(seq, 1, IF Len(seq) < LowestN THEN Len(seq) ELSE LowestN)

\* costs.reduce((s, v) => s + v, 0): NaN once a cost is not a number
RECURSIVE SumCosts(_)
SumCosts(seq) ==
  IF seq = <<>> THEN Num(0)
  ELSE LET rest == SumCosts(SubSeq(seq, 1, Len(seq) - 1))
           v == seq[Len(seq)]
       IN IF rest.t = "number" /\ v.t = "number" THEN Num(rest.n + v.n) ELSE NaN

\* Math.round(sum / len): halves round up
RoundedMean(sum, len) ==
  IF sum.t = "number" THEN Num((2 * sum.n + len) \div (2 * len)) ELSE NaN

\* an element of the points market is null: l.quantity throws
HasNullish(seq) == \E j \in 1..Len(seq) : Nullish(seq[j])

\* fetchPointsPrice(), given the outcome of its call
fetchPointsPrice(r) ==
  IF r.throws \/ Nullish(r.data) THEN Num(0)
  ELSE IF Truthy(Get(r.data, "error")) \/ ~Truthy(Get(r.data, "pointsmarket"))
    THEN Num(0)
  ELSE LET entries == Values(Get(r.data, "pointsmarket"))
           costs == Lowest(SortCosts(AvailableCosts(entries)))
       IN IF HasNullish(entries) THEN Num(0)
          ELSE IF Len(costs) > 0 THEN RoundedMean(SumCosts(costs), Len(costs))
          ELSE Num(0)

(***************************************************************************)
(* The environment: the responses of the three endpoints and the history   *)
(* files a run may find.                                                   *)
(***************************************************************************)
ApiError == Obj(<<KV("error", Obj(<<KV("code", Num(2))>>))>>)

\* {"itemmarket": {"item": {"average_price": avg}, "listings": listings},
\*  "bazaar": {"specialized": specialized}}
MarketData(avg, listings, specialized) ==
  Obj(<<KV("itemmarket",
           Obj(<<KV("item", Obj(<<KV("average_price", avg)>>)),
                 KV("listings", listings)>>)),
        KV("bazaar", Obj(<<KV("specialized", specialized)>>))>>)

Listing(field, cost) == Obj(<<KV(field, cost)>>)
Shop(id, open) == Obj(<<KV("id", id), KV("is_open", open)>>)

\* a server average and two open sellers
PrimaryWithSellers ==
  Returned(MarketData(Num(100), Arr(<<Listing("price", Num(90))>>),
                      Arr(<<Shop(Num(7), Bool(TRUE)), Obj(<<KV("id", Num(8))>>)>>)))

PrimaryResponses ==
  { Thrown,
    Returned(Null),
    Returned(ApiError),
    Returned(Obj(<<>>)),
    \* a server average, no seller
    Returned(MarketData(Num(100), Arr(<<>>), Arr(<<>>))),
    PrimaryWithSellers,
    \* no average: the cheapest listing
    Returned(MarketData(Num(0),
                        Arr(<<Listing("price", Num(50)), Listing("cost", Num(30)),
                              Listing("price", Num(0)), Null>>),
                        Arr(<<>>))),
    \* no average, no listing with a positive cost; the first seller is
    \* closed, the third has no numeric id
    Returned(MarketData(Null,
                        Arr(<<Listing("price", Num(0)), Listing("price", Num(-5)),
                              Listing("price", Str("100"))>>),
                        Arr(<<Shop(Num(7), Bool(FALSE)), Shop(Num(8), Bool(TRUE)),
                              Shop(Str("9"), Bool(TRUE)), Null>>))),
    \* the average is a numeric string
    Returned(MarketData(Str("100"), Arr(<<>>), Arr(<<>>))),
    \* the specialized section is an object, not an array
    Returned(MarketData(Num(100), Arr(<<>>), Obj(<<>>))),
    \* itemmarket is a keyed object of listings
    Returned(Obj(<<KV("itemmarket",
                      Obj(<<KV("a", Listing("cost", Num(60))),
                            KV("b", Listing("price", Num(30))),
                            KV("n", Num(3))>>))>>)),
    \* the listings sit under a container key
    Returned(Obj(<<KV("itemmarket",
                      Obj(<<KV("listings",
                               Obj(<<KV("data",
                                        Obj(<<KV("listings",
                                                 Arr(<<Listing("amount", Num(30))>>))>>))>>))>>))>>)),
    \* a keyed object whose entries carry their cost under "value"
    Returned(Obj(<<KV("itemmarket",
                      Obj(<<KV("a", Listing("value", Num(25)))>>))>>)) }

\* an inventory entry
Entry(idField, id, cost) == Obj(<<KV(idField, id), KV("price", cost)>>)

\* an array inventory
PeerInventory ==
  Returned(Obj(<<KV("bazaar",
                    Arr(<<Entry("ID", Num(1504), Num(40)),
                          Entry("ID", Num(1504), Num(35)),
                          Entry("ID", Num(1503), Num(35)),
                          Entry("ID", Num(999), Num(1)),
                          Entry("ID", Num(1504), Num(0))>>))>>))

PeerResponses ==
  { Thrown,
    Returned(Null),
    Returned(ApiError),
    PeerInventory,
    \* a keyed inventory, the identifiers strings
    Returned(Obj(<<KV("items",
                      Obj(<<KV("0", Entry("id", Str("1504"), Num(35))),
                            KV("1", Entry("item_id", Str("1503"), Num(35))),
                            KV("2", Num(5))>>))>>)),
    \* a null entry after a match
    Returned(Obj(<<KV("bazaar",
                      Arr(<<Entry("ID", Num(1504), Num(40)), Null>>))>>)),
    \* nothing for sale
    Returned(Obj(<<KV("bazaar", Arr(<<>>))>>)) }

\* an entry of the points market
Points(cost, quantity) == Obj(<<KV("cost", cost), KV("quantity", quantity)>>)
PointsData(entries) == Returned(Obj(<<KV("pointsmarket", Obj(entries))>>))

\* three entries for sale, at 10, 20 and 30
PointsThree ==
  PointsData(<<KV("1", Points(Num(10), Num(1))), KV("2", Points(Num(20), Num(5))),
               KV("3", Points(Num(30), Num(2)))>>)

PointsResponses ==
  { Thrown,
    Returned(ApiError),
    Returned(Obj(<<>>)),
    PointsData(<<KV("1", Points(Num(10), Num(0)))>>),
    PointsThree,
    \* six entries for sale and one sold out: the mean of the five lowest
    \* is 203 / 5
    PointsData(<<KV("1", Points(Num(70), Num(1))), KV("2", Points(Num(63), Num(1))),
                 KV("3", Points(Num(50), Num(1))), KV("4", Points(Num(40), Num(1))),
                 KV("5", Points(Num(30), Num(1))), KV("6", Points(Num(20), Num(1))),
                 KV("7", Points(Num(1), Num(0)))>>),
    \* an entry with a positive quantity and no cost
    PointsData(<<KV("1", Points(Num(10), Num(1))),
                 KV("2", Obj(<<KV("quantity", Num(3))>>))>>),
    \* a null entry
    PointsData(<<KV("1", Points(Num(10), Num(1))), KV("2", Null)>>) }

\* the responses of a run on a quiet day: each call fails or returns the
\* usual payload
SteadyPrimary == {Thrown, PrimaryWithSellers}
SteadyPeer == {Thrown, PeerInventory}
SteadyPoints == {Thrown, PointsThree}

\* what JSON.stringify writes for a snapshot and JSON.parse reads back
Snapshot(ts, price, mkt, baz) ==
  Obj(<<KV("ts", ts), KV("pp", price), KV("market", Obj(mkt)),
        KV("bazaar", Obj(baz)), KV("source", Str("github"))>>)

\* an earlier run's snapshot, taken at time ts
OldSnapshot(ts) == Snapshot(Num(ts), Num(20), <<KV("Quartz Point", Num(100))>>, <<>>)

\* a log of n earlier snapshots, oldest first
OldLog(n) == [j \in 1..n |-> OldSnapshot(j)]

FileAbsent == [exists |-> FALSE, valid |-> FALSE, json |-> Undef]
FileGarbage == [exists |-> TRUE, valid |-> FALSE, json |-> Undef]
FileOf(json) == [exists |-> TRUE, valid |-> TRUE, json |-> json]

\* the history files of Init: none, one that is no JSON, JSON that is no
\* array, arrays with an element that is no snapshot, short logs
HistoryFiles ==
  { FileAbsent, FileGarbage,
    FileOf(Str("not an array")), FileOf(Obj(<<KV("ts", Num(1))>>)),
    FileOf(Arr(<<Num(42)>>)),
    FileOf(Arr(<<OldSnapshot(1), Null>>)),
    FileOf(Arr(<<Obj(<<KV("ts", Num(1))>>), OldSnapshot(2)>>)),
    FileOf(Arr(OldLog(0))), FileOf(Arr(OldLog(1))), FileOf(Arr(OldLog(3))) }

\* the lengths of the logs around the window
WindowLengths == {0, 1} \cup ((MAX_ENTRIES - 1)..(MAX_ENTRIES + MaxOver))

\* the history files of InitWindow: logs of earlier snapshots
WindowFiles == { FileOf(Arr(OldLog(n))) : n \in WindowLengths }

(***************************************************************************)
(* The history store.                                                      *)
(***************************************************************************)
\* JSON.parse(JSON.stringify(v)): NaN and Infinity are written as null, an
\* undefined array element as null, an undefined property is left out
RECURSIVE Jsonify(_), JsonProps(_)
Jsonify(v) ==
  CASE v.t \in {"NaN", "Infinity", "undefined"} -> Null
    [] v.t = "array" ->
         JS("array", 0, "", [j \in 1..Len(v.kids) |-> KV("", Jsonify(v.kids[j].v))])
    [] v.t = "object" -> JS("object", 0, "", JsonProps(v.kids))
    [] OTHER -> v

JsonProps(props) ==
  IF props = <<>> THEN <<>>
  ELSE IF Head(props).v.t = "undefined" THEN JsonProps(Tail(props))
  ELSE <<KV(Head(props).k, Jsonify(Head(props).v))>> \o JsonProps(Tail(props))

\* the load without the Array.isArray check of line 174
LoadHistoryUnchecked(f) ==
  IF f.exists /\ f.valid THEN Values(f.json) ELSE <<>>

\* lines 170-176: the log main starts from
LoadHistory(f) ==
  IF f.exists /\ f.valid /\ IsArray(f.json) THEN Elems(f.json) ELSE <<>>

\* the trim with an if in place of the while: one shift at most
TrimOnce(h) == IF Len(h) > MAX_ENTRIES THEN Tail(h) ELSE h

\* line 194: while (history.length > MAX_ENTRIES) history.shift()
RECURSIVE Trim(_)
Trim(h) == IF Len(h) > MAX_ENTRIES THEN Trim(Tail(h)) ELSE h

\* line 193: the object main pushes
BuildSnapshot(ts, price, mkt, baz) == Snapshot(Num(ts), price, mkt, baz)

\* the push followed by a trim that pops the newest entries
AppendAndPop(h, snap) ==
  LET a == Append(h, snap)
  IN SubSeq(a, 1, IF Len(a) > MAX_ENTRIES THEN MAX_ENTRIES ELSE Len(a))

\* lines 193-194
AppendAndTrim(h, snap) == Trim(Append(h, snap))

\* line 213: the file after writeFileSync(HISTORY_PATH, JSON.stringify(history))
SaveHistory(h) == FileOf(Jsonify(Arr(h)))

(***************************************************************************)
(* The run.                                                                *)
(***************************************************************************)
NoResponse == [throws |-> FALSE, data |-> Undef]
Event(kind, arg) == [kind |-> kind, arg |-> arg]
Pause == Event("sleep", DELAY_MS)

\* the state a process starts in, its history file one of files
InitWith(files) ==
  /\ apiKey \in BOOLEAN
  /\ file \in files
  /\ found = file
  /\ now = 1001
  /\ pc = "start"
  /\ history = <<>>
  /\ market = <<>>
  /\ bazaar = <<>>
  /\ i = 1
  /\ marketPrice = Null
  /\ shopIds = <<>>
  /\ bazaarPrice = Null
  /\ resp = NoResponse
  /\ pp = Undef
  /\ trace = <<>>

Init == InitWith(HistoryFiles)

InitWindow == InitWith(WindowFiles)

\* line 33: no credential, the process exits before main
NoKey ==
  /\ pc = "start"
  /\ ~apiKey
  /\ pc' = "exit1"
  /\ UNCHANGED <<apiKey, file, found, now, history, market, bazaar, i, marketPrice,
                 shopIds, bazaarPrice, resp, pp, trace>>

\* lines 167-182: main loads the history and enters the loop
Load ==
  /\ pc = "start"
  /\ apiKey
  /\ history' = LoadHistory(file)
  /\ i' = 1
  /\ pc' = IF 1 <= Len(names) THEN "primary" ELSE "points"
  /\ UNCHANGED <<apiKey, file, found, now, market, bazaar, marketPrice, shopIds,
                 bazaarPrice, resp, pp, trace>>

\* lines 150 and 185-188: fetchItemPrices returns {market: m, bazaar: b},
\* main records the prices and moves to the next name
ReturnPrices(m, b) ==
  /\ market' = IF m # Null THEN Append(market, KV(names[i], m)) ELSE market
  /\ bazaar' = IF b # Null THEN Append(bazaar, KV(names[i], b)) ELSE bazaar
  /\ i' = i + 1
  /\ pc' = IF i + 1 <= Len(names) THEN "primary" ELSE "points"
  /\ marketPrice' = Null
  /\ shopIds' = <<>>
  /\ bazaarPrice' = Null
  /\ resp' = NoResponse

\* lines 96-122: the primary-market call of item i ends with a response
\* of responses
PrimaryReturns(responses) ==
  /\ pc = "primary"
  /\ \E r \in responses :
       /\ resp' = r
       /\ marketPrice' = Step1Price(r)
       /\ shopIds' = Step1Shops(r)
  /\ trace' = Append(trace, Event("primary", ITEMS[i].id))
  /\ pc' = "sleep1"
  /\ UNCHANGED <<apiKey, file, found, now, history, market, bazaar, i, bazaarPrice, pp>>

\* lines 124-127: the pause after step 1 ends
Sleep1Done ==
  /\ pc = "sleep1"
  /\ trace' = Append(trace, Pause)
  /\ IF Len(shopIds) > 0
       THEN /\ pc' = "peer"
            /\ UNCHANGED <<market, bazaar, i, marketPrice, shopIds, bazaarPrice, resp>>
       ELSE ReturnPrices(marketPrice, Null)
  /\ UNCHANGED <<apiKey, file, found, now, history, pp>>

\* the peer-seller call without the try of line 128: a failure reaches the
\* handler of line 217
PeerReturnsUncaught(responses) ==
  /\ pc = "peer"
  /\ trace' = Append(trace, Event("peer", shopIds[1].n))
  /\ \E r \in responses :
       LET res == Step2(r, ITEMS[i].id)
       IN IF res.threw
            THEN /\ pc' = "fatal"
                 /\ UNCHANGED <<market, bazaar, i, marketPrice, shopIds,
                                bazaarPrice, resp>>
            ELSE /\ pc' = "sleep2"
                 /\ bazaarPrice' = res.price
                 /\ resp' = r
                 /\ UNCHANGED <<market, bazaar, i, marketPrice, shopIds>>
  /\ UNCHANGED <<apiKey, file, found, now, history, pp>>

\* the peer-seller call that moves on to the next seller when one fails
PeerReturnsRetry(responses) ==
  /\ pc = "peer"
  /\ trace' = Append(trace, Event("peer", shopIds[1].n))
  /\ \E r \in responses :
       LET res == Step2(r, ITEMS[i].id)
       IN IF res.threw /\ Len(shopIds) > 1
            THEN /\ pc' = "peer"
                 /\ shopIds' = Tail(shopIds)
                 /\ UNCHANGED <<market, bazaar, i, marketPrice, bazaarPrice, resp>>
            ELSE IF res.threw
            THEN ReturnPrices(marketPrice, res.price)
            ELSE /\ pc' = "sleep2"
                 /\ bazaarPrice' = res.price
                 /\ resp' = r
                 /\ UNCHANGED <<market, bazaar, i, marketPrice, shopIds>>
  /\ UNCHANGED <<apiKey, file, found, now, history, pp>>

\* lines 128-147: the peer-seller call of item i ends with a response of
\* responses; the pause of line 144 is skipped when the catch is entered
PeerReturns(responses) ==
  /\ pc = "peer"
  /\ trace' = Append(trace, Event("peer", shopIds[1].n))
  /\ \E r \in responses :
       LET res == Step2(r, ITEMS[i].id)
       IN IF res.threw
            THEN ReturnPrices(marketPrice, res.price)
            ELSE /\ pc' = "sleep2"
                 /\ bazaarPrice' = res.price
                 /\ resp' = r
                 /\ UNCHANGED <<market, bazaar, i, marketPrice, shopIds>>
  /\ UNCHANGED <<apiKey, file, found, now, history, pp>>

\* line 144: the pause after step 2 ends
Sleep2Done ==
  /\ pc = "sleep2"
  /\ trace' = Append(trace, Pause)
  /\ ReturnPrices(marketPrice, bazaarPrice)
  /\ UNCHANGED <<apiKey, file, found, now, history, pp>>

\* lines 190-217: the points call ends with a response of responses, the
\* snapshot is pushed, the log trimmed and written; when writeFileSync
\* throws, main rejects and the process exits 1
PointsReturns(responses) ==
  /\ pc = "points"
  /\ trace' = Append(trace, Event("points", 0))
  /\ \E r \in responses :
       /\ resp' = r
       /\ pp' = fetchPointsPrice(r)
  /\ history' = AppendAndTrim(history, BuildSnapshot(now, pp', market, bazaar))
  /\ \E written \in BOOLEAN :
       IF written
         THEN file' = SaveHistory(history') /\ pc' = "done"
         ELSE file' = file /\ pc' = "fatal"
  /\ UNCHANGED <<apiKey, found, now, market, bazaar, i, marketPrice, shopIds, bazaarPrice>>

\* a step of the process, the responses of the endpoints drawn from
\* primary, peer and points
Run(primary, peer, points) ==
  \/ NoKey
  \/ Load
  \/ PrimaryReturns(primary)
  \/ Sleep1Done
  \/ PeerReturns(peer)
  \/ Sleep2Done
  \/ PointsReturns(points)

Next == Run(PrimaryResponses, PeerResponses, PointsResponses)

NextWindow == Run(SteadyPrimary, SteadyPeer, SteadyPoints)

\* a run that finds a short or damaged history file, any response
Spec == Init /\ [][Next]_vars

\* a run that finds a log around the window, on a quiet day
SpecWindow == InitWindow /\ [][NextWindow]_vars

(***************************************************************************)
(* The properties checked.                                                 *)
(***************************************************************************)
\* the snapshot the run builds once pp is known
RunSnapshot == BuildSnapshot(now, pp, market, bazaar)

\* the elements of the array the file holds
Saved == Elems(file.json)

\* the log the process found, as main loads it
Loaded == LoadHistory(found)

\* the smaller of two numbers
Min(a, b) == IF a < b THEN a ELSE b

\* the last n elements of seq
LastN(seq, n) == SubSeq(seq, Len(seq) - n + 1, Len(seq))

\* C1: whatever the length of the array the history file holds, the log a
\* run saves is an array of at most MAX_ENTRIES elements whose last element
\* is the snapshot built by that run.
C1_SavedLogWithinWindow ==
  pc = "done" =>
    /\ file.exists /\ file.valid /\ IsArray(file.json)
    /\ Len(Saved) >= 1
    /\ Len(Saved) <= MAX_ENTRIES
    /\ Saved[Len(Saved)] = Jsonify(RunSnapshot)

\* a run that found more than MAX_ENTRIES + 1 snapshots saved exactly
\* MAX_ENTRIES, the oldest kept being the one taken at MaxOver + 2
C1_Witness ==
  /\ pc = "done"
  /\ Len(Loaded) = MAX_ENTRIES + MaxOver
  /\ Len(Saved) = MAX_ENTRIES
  /\ Get(Saved[1], "ts") = Num(MaxOver + 2)

\* C2: append_and_trim(log, s, W) is the last min(len(log) + 1, W) elements
\* of log followed by s, in order: a log of length W loses only its oldest
\* element, a shorter log loses nothing.
C2_AppendAndTrimKeepsNewest ==
  pc \in {"done", "fatal"} =>
    LET all == Loaded \o <<RunSnapshot>>
    IN /\ history = LastN(all, Min(Len(Loaded) + 1, MAX_ENTRIES))
       /\ Len(Loaded) = MAX_ENTRIES =>
            /\ Len(history) = MAX_ENTRIES
            /\ history[MAX_ENTRIES] = RunSnapshot
            /\ SubSeq(history, 1, MAX_ENTRIES - 1) = SubSeq(Loaded, 2, MAX_ENTRIES)
       /\ Len(Loaded) < MAX_ENTRIES => history = Append(Loaded, RunSnapshot)

\* a log of exactly MAX_ENTRIES snapshots has lost its oldest, and only it
C2_Witness ==
  /\ pc = "done"
  /\ Len(Loaded) = MAX_ENTRIES
  /\ Get(history[1], "ts") = Num(2)
  /\ history[Len(history)] = RunSnapshot

\* the file holds no array: it is absent, is no JSON, or is JSON of
\* another shape
BadFile(f) == ~f.exists \/ ~f.valid \/ ~IsArray(f.json)

\* the run is inside the loop over the catalog, or about to fetch the points
InLoop == pc \in {"primary", "sleep1", "peer", "sleep2", "points"}

\* the events of the trace of one kind
EventsOf(kind) == SelectSeq(trace, LAMBDA e : e.kind = kind)

\* the network calls of the trace
Calls == SelectSeq(trace, LAMBDA e : e.kind # "sleep")

\* C3: a history file that is absent, is invalid JSON or holds a value that
\* is no array does not fail the run: the loaded log is empty, the run goes
\* on through the catalog, and the log it saves holds exactly the new
\* snapshot.
C3_BadFileStartsFresh ==
  (apiKey /\ BadFile(found)) =>
    /\ pc # "start" => Loaded = <<>>
    /\ InLoop => history = <<>>
    /\ pc = "fatal" => (trace # <<>> /\ trace[Len(trace)].kind = "points")
    /\ pc = "done" =>
         /\ file.exists /\ file.valid /\ IsArray(file.json)
         /\ Saved = <<Jsonify(RunSnapshot)>>

\* a run that found the JSON string "not an array" saved one snapshot
C3_Witness ==
  /\ pc = "done"
  /\ found = FileOf(Str("not an array"))
  /\ Len(Saved) = 1

\* an element of the log has the fields of a snapshot
WellFormedSnapshot(e) ==
  /\ e.t = "object"
  /\ Get(e, "ts").t = "number"
  /\ TypeOf(Get(e, "pp")) = "number"
  /\ Get(e, "market").t = "object"
  /\ Get(e, "bazaar").t = "object"

\* the array found holds an element that is no snapshot
HasMalformed(f) ==
  /\ ~BadFile(f)
  /\ \E j \in 1..Len(f.json.kids) : ~WellFormedSnapshot(f.json.kids[j].v)

\* C4: every element of the log is a well-formed snapshot in every state:
\* an array with an element that is no snapshot is loaded as the empty log,
\* and no such element is carried into the saved log.
C4_EveryElementWellFormed ==
  /\ \A j \in 1..Len(history) : WellFormedSnapshot(history[j])
  /\ (HasMalformed(found) /\ InLoop) => history = <<>>
  /\ (HasMalformed(found) /\ pc = "done") => Len(Saved) = 1

\* C5: with the credential present, no outcome of a network call aborts the
\* run: the primary calls visit the catalog once, in order, the points call
\* follows, one snapshot is appended, and the handler of line 217 is reached
\* only from the final write.
C5_RunCompletes ==
  apiKey =>
    /\ pc = "primary" =>
         EventsOf("primary") = [j \in 1..(i - 1) |-> Event("primary", ITEMS[j].id)]
    /\ pc \in {"sleep1", "peer", "sleep2"} =>
         EventsOf("primary") = [j \in 1..i |-> Event("primary", ITEMS[j].id)]
    /\ pc \in {"points", "done", "fatal"} =>
         EventsOf("primary") = [j \in 1..NumItems |-> Event("primary", ITEMS[j].id)]
    /\ pc \in {"done", "fatal"} =>
         /\ trace[Len(trace)].kind = "points"
         /\ Len(EventsOf("points")) = 1
         /\ history = LastN(Loaded \o <<RunSnapshot>>, Min(Len(Loaded) + 1, MAX_ENTRIES))
    /\ InLoop => (Len(EventsOf("points")) = 0 /\ history = Loaded)

\* a run whose every call threw is done: nothing resolved, the aggregate 0
C5_Witness ==
  /\ pc = "done"
  /\ Len(Calls) = NumItems + 1
  /\ market = <<>>
  /\ bazaar = <<>>
  /\ pp = Num(0)
  /\ resp = Thrown
  /\ Saved[Len(Saved)] = Jsonify(RunSnapshot)

\* C6: a pause of DELAY_MS separates every two consecutive network calls of
\* a run, whatever the outcome of the earlier call.
C6_PauseBetweenCalls ==
  \A j \in 1..(Len(trace) - 1) :
    trace[j].kind # "sleep" => trace[j + 1] = Pause

\* a call threw or its payload carries an error
CallFailed(r) == r.throws \/ Nullish(r.data) \/ Truthy(Get(r.data, "error"))

\* C7: at most one peer-seller call is made per item, after the item's
\* primary call and its pause, to the first candidate seller, and only when
\* there is a candidate; a primary call that threw or returned an error
\* leaves no candidate; an item enters the bazaar map only through a peer
\* call; a run makes at most 2 x catalog size + 1 calls.
C7_OnePeerCallPerItem ==
  /\ \A j \in 1..Len(trace) :
       trace[j].kind = "peer" =>
         /\ j >= 3
         /\ trace[j - 1] = Pause
         /\ trace[j - 2].kind = "primary"
  /\ (pc = "sleep1" /\ CallFailed(resp)) => shopIds = <<>>
  /\ pc = "peer" => (shopIds # <<>> /\ ~CallFailed(resp))
  /\ pc = "sleep2" => trace[Len(trace)] = Event("peer", shopIds[1].n)
  /\ Len(bazaar) <= Len(EventsOf("peer"))
  /\ Len(Calls) <= 2 * NumItems + 1

\* the peer call went to seller 7, the first of the two candidates
C7_Witness ==
  /\ pc = "sleep2"
  /\ Len(shopIds) = 2
  /\ trace[Len(trace)] = Event("peer", 7)
  /\ trace[Len(trace)].arg = shopIds[1].n

\* the listings section resolve_primary normalizes
ListingsSection(data) ==
  LET mraw == Get(data, "itemmarket")
  IN Coalesce(Coalesce(OptGet(mraw, "listings"), mraw), Arr(<<>>))

\* the price C8 describes: the server average when it is a number above
\* zero, else the cheapest positive cost of the normalized listings
ClaimedPrimary(data) ==
  LET avg == OptGet(OptGet(Get(data, "itemmarket"), "item"), "average_price")
  IN IF avg.t = "number" /\ avg.n > 0 THEN avg
     ELSE cheapest(extractListings(ListingsSection(data)))

\* C8: on a payload without error the primary price is the server average
\* when present and strictly positive, else the minimum strictly positive
\* cost of the normalized listings, else absent; every value of the market
\* map is a strictly positive number.
C8_PrimaryPricePositiveNumber ==
  /\ (pc = "sleep1" /\ Step1NoError(resp)) => marketPrice = ClaimedPrimary(resp.data)
  /\ \A j \in 1..Len(market) : (market[j].v.t = "number" /\ market[j].v.n > 0)

\* C9: an exception raised while the primary payload is parsed leaves the
\* item with no price and no seller.
C9_ParseErrorMeansNoPrice ==
  (pc = "sleep1" /\ Step1Throws(resp)) => (marketPrice = Null /\ shopIds = <<>>)

\* C10: the aggregate price of a snapshot is a number, in memory and in the
\* saved file, and it is 0 when the points call threw or returned an error
\* or no points market.
C10_AggregateIsNumber ==
  pc = "done" =>
    /\ pp.t = "number"
    /\ Get(Saved[Len(Saved)], "pp").t = "number"
    /\ (CallFailed(resp) \/ ~Truthy(Get(resp.data, "pointsmarket")))
         => pp = Num(0)

\* a value carries one of the fields listingCost reads
HasCostField(v) == \E j \in 1..Len(CostFields) : HasKey(v, CostFields[j])

\* sec is an object of none of the container shapes: no array under
\* listings or a container key, no nested listings array
KeyedSection(sec) ==
  /\ Truthy(sec) /\ TypeOf(sec) = "object" /\ ~IsArray(sec)
  /\ ~IsArray(Get(sec, "listings"))
  /\ ContainerFrom(sec, 1) = Undef

\* C11: on an object of none of the container shapes, extractListings
\* returns the object-typed values exactly when one of them carries a field
\* listingCost reads (price, cost, amount or value), and the empty sequence
\* otherwise; a keyed map listingCost can price is never discarded.
C11_GuardKeepsPricedMaps ==
  (pc = "sleep1" /\ Step1NoError(resp) /\ KeyedSection(ListingsSection(resp.data))) =>
    LET sec == ListingsSection(resp.data)
        vals == ObjectsOf(Values(sec))
    IN /\ extractListings(sec) =
            IF \E j \in 1..Len(vals) : HasCostField(vals[j]) THEN vals ELSE <<>>
       /\ (\E j \in 1..Len(vals) : listingCost(vals[j]) # Null)
            => marketPrice # Null

====
